---------------------------- MODULE Spec2Model ----------------------------
(***************************************************************************)
(* The PCA notebook (src/2.PCA.ipynb) as a state machine.                  *)
(*                                                                         *)
(* The notebook runs three code cells in order (imports; load and centre   *)
(* the data; fit PCA and plot the explained-variance ratios) and then      *)
(* defines, in its last markdown cell, the linear encode / decode maps     *)
(*     z = U_nu^T x        xhat = U_nu z                                   *)
(* for the orthogonal matrix U of principal components.                    *)
(*                                                                         *)
(* Arithmetic is exact.  A real vector or matrix is a record               *)
(* [num |-> integers, den |-> positive integer] standing for num / den, so *)
(* that centring (a division by the number of rows) and a basis whose      *)
(* entries are fractions are computed without rounding.  Floating-point    *)
(* rounding is not modelled; the one floating-point effect kept is that    *)
(* 0 / 0 is not a number.                                                  *)
(*                                                                         *)
(* PCA.fit is a call into scikit-learn.  It is modelled by what the        *)
(* notebook says of it: the principal components are the eigenvectors of   *)
(* the data covariance matrix, orthogonal, ordered by the variance they    *)
(* capture, largest first.  The eigenvectors are searched among the unit   *)
(* vectors whose entries are multiples of 1/Den, and the data sets are     *)
(* those whose covariance has a full eigenbasis there.                     *)
(*                                                                         *)
(* Spec is the notebook as written (n_components = 3) followed by one      *)
(* encode and decode of a vector x with nu retained columns.  SpecFit is   *)
(* the code cells alone with n_components drawn from 1..D, for the         *)
(* properties of fit that range over the number of components.             *)
(***************************************************************************)
EXTENDS Integers, Sequences, FiniteSets

\* Number of measurements per observation (the Iris data has four).
D == 4

\* Number of observations in the model's data sets (the Iris data has 150).
NRows == 5

\* The notebook fits PCA(n_components=3).
NComponents == 3

\* Basis entries are multiples of 1/Den.
Den == 2

\* Entries of the vectors x that are encoded range over -MaxX..MaxX.
MaxX == 1

VARIABLES
    pc,            \* which cell ran last
    iris_source,   \* what load_iris() delivers (iris_data.data)
    iris_data,     \* the notebook's variable iris_data
    n_components,  \* the argument of PCA(n_components=...)
    pcaIris3,      \* the fitted PCA object
    plot,          \* what the fit cell plots
    nu, x, z, xhat \* the markdown cell's encode / decode

vars == <<pc, iris_source, iris_data, n_components, pcaIris3, plot, nu, x, z, xhat>>

---------------------------------------------------------------------------
(* Integer helpers *)

Abs(a) == IF a < 0 THEN -a ELSE a

RECURSIVE Gcd(_, _)
Gcd(a, b) == IF b = 0 THEN a ELSE Gcd(b, a % b)

\* f[1] + ... + f[n]
RECURSIVE Sum(_, _)
Sum(f, n) == IF n = 0 THEN 0 ELSE f[n] + Sum(f, n - 1)

\* The sequence f[1], ..., f[n] of a function f on 1..n
Tuple(f) == f \o <<>>

Dot(u, v) == Sum([k \in 1..Len(u) |-> u[k] * v[k]], Len(u))

---------------------------------------------------------------------------
(* Matrices of integers: a matrix is the sequence of its rows *)

NRowsOf(A) == Len(A)
NColsOf(A) == Len(A[1])

Transpose(A) ==
    Tuple([j \in 1..NColsOf(A) |-> Tuple([i \in 1..NRowsOf(A) |-> A[i][j]])])

MatMul(A, B) ==
    Tuple([i \in 1..NRowsOf(A) |-> Tuple([j \in 1..NColsOf(B) |->
        Sum([k \in 1..NRowsOf(B) |-> A[i][k] * B[k][j]], NRowsOf(B))])])

MatVec(A, v) == Tuple([i \in 1..NRowsOf(A) |-> Dot(A[i], v)])

Column(A, j) == Tuple([i \in 1..NRowsOf(A) |-> A[i][j]])

Identity(n) == Tuple([i \in 1..n |-> Tuple([j \in 1..n |-> IF i = j THEN 1 ELSE 0])])

Scaled(c, A) ==
    Tuple([i \in 1..NRowsOf(A) |-> Tuple([j \in 1..NColsOf(A) |-> c * A[i][j]])])

Trace(A) == Sum([k \in 1..NRowsOf(A) |-> A[k][k]], NRowsOf(A))

---------------------------------------------------------------------------
(* Scalars num/den as floating-point division gives them *)

NaN == [num |-> 0, den |-> 0]

IsNaN(r) == r.den = 0

\* n / d for d >= 0, in lowest terms; a zero divisor gives no number
Div(n, d) ==
    IF d = 0 THEN NaN
    ELSE LET g == Gcd(Abs(n), d) IN [num |-> n \div g, den |-> d \div g]

Add(r, s) ==
    IF IsNaN(r) \/ IsNaN(s) THEN NaN
    ELSE Div(r.num * s.den + s.num * r.den, r.den * s.den)

\* r >= s; false as soon as one of them is not a number
Geq(r, s) == ~IsNaN(r) /\ ~IsNaN(s) /\ r.num * s.den >= s.num * r.den

Same(r, s) == ~IsNaN(r) /\ ~IsNaN(s) /\ r.num * s.den = s.num * r.den

RECURSIVE SumRatios(_, _)
SumRatios(rs, n) == IF n = 0 THEN Div(0, 1) ELSE Add(rs[n], SumRatios(rs, n - 1))

---------------------------------------------------------------------------
(* Cell 165c54db: load and centre the data *)

NoData == [num |-> <<>>, den |-> 1]

ColSum(M, j) == Sum(Column(M, j), NRowsOf(M))

\* A - np.mean(A, axis=0): with A = num/den and N rows,
\* A - mean = (N*num - column sums) / (N*den)
Center(A) ==
    LET N == NRowsOf(A.num) IN
    [num |-> Tuple([i \in 1..N |-> Tuple([j \in 1..NColsOf(A.num) |->
                 N * A.num[i][j] - ColSum(A.num, j)])]),
     den |-> N * A.den]

---------------------------------------------------------------------------
(* Cell 33bef977: PCA(n_components).fit(iris_data) *)

\* The mean product of the entries themselves, the column means not
\* subtracted
SecondMoment(A) ==
    [num |-> MatMul(Transpose(A.num), A.num),
     den |-> A.den * A.den * (NRowsOf(A.num) - 1)]

\* The data covariance matrix: the mean product of the deviations from the
\* column means.  (Dividing by N - 1 or by N changes neither the
\* eigenvectors nor the variance ratios.)
Covariance(A) ==
    LET C == Center(A)
    IN  [num |-> MatMul(Transpose(C.num), C.num),
         den |-> C.den * C.den * (NRowsOf(A.num) - 1)]

\* Total variance of the data: the sum of the variances of its columns.
TotalVariance(A) == Trace(Covariance(A).num)

\* Unit vectors (times Den) with entries that are multiples of 1/Den.
Dirs == {Tuple(v) : v \in {w \in [1..D -> -Den..Den] : Dot(w, w) = Den * Den}}

\* v is an eigenvector of S: S v is a multiple of v
IsEigenvector(S, v) ==
    LET w == MatVec(S, v)
    IN  \A i \in 1..D : w[i] * Dot(v, v) = Dot(v, w) * v[i]

\* Variance captured along v (times Den^2): v^T S v
Captured(S, v) == Dot(v, MatVec(S, v))

EigenDirs(S) == {v \in Dirs : IsEigenvector(S, v)}

\* Orthogonality tested against the direction chosen last only
OrthogonalToLast(v, chosen) ==
    Len(chosen) = 0 \/ Dot(v, chosen[Len(chosen)]) = 0

\* v is orthogonal to every direction chosen so far
Orthogonal(v, chosen) == \A k \in 1..Len(chosen) : Dot(v, chosen[k]) = 0

\* The candidates that capture the smallest variance
Smallest(S, cand) ==
    LET vals == {Captured(S, v) : v \in cand}
        least == CHOOSE a \in vals : \A b \in vals : a <= b
    IN  {v \in cand : Captured(S, v) = least}

\* Among the candidates, those that capture the largest variance
Largest(S, cand) ==
    LET vals == {Captured(S, v) : v \in cand}
        most == CHOOSE a \in vals : \A b \in vals : a >= b
    IN  {v \in cand : Captured(S, v) = most}

\* The principal components in order: each is an eigenvector orthogonal to
\* the earlier ones that captures the largest variance left.  <<>> when the
\* eigenvectors are not all among Dirs.
RECURSIVE Components(_, _, _)
Components(S, eig, chosen) ==
    IF Len(chosen) = D THEN chosen
    ELSE LET cand == {v \in eig : Orthogonal(v, chosen)}
         IN  IF cand = {} THEN <<>>
             ELSE Components(S, eig, Append(chosen, CHOOSE v \in Largest(S, cand) : TRUE))

\* variance_i / total variance, for the first nc components
explainedVarianceRatio(S, comps, total, nc) ==
    Tuple([j \in 1..nc |-> Div(Captured(S, comps[j]), Den * Den * total)])

NotFitted == [U |-> [num |-> <<>>, den |-> 1], explained_variance_ratio_ |-> <<>>]

\* U holds the principal components as its columns, in order.
fit(A, nc) ==
    LET S     == Covariance(A).num
        comps == Components(S, EigenDirs(S), <<>>)
    IN  IF comps = <<>> THEN NotFitted
        ELSE [U |-> [num |-> Transpose(comps), den |-> Den],
              explained_variance_ratio_ |->
                  explainedVarianceRatio(S, comps, TotalVariance(A), nc)]

---------------------------------------------------------------------------
(* Markdown cell 1cdd271b: encode and decode *)

\* Truncate with the last retained column lost (columns 1..nu-1)
TruncateDropsLast(U, v) ==
    [num |-> Tuple([i \in 1..NRowsOf(U.num) |-> Tuple([j \in 1..(v - 1) |-> U.num[i][j]])]),
     den |-> U.den]

\* Truncate that keeps column nu alone instead of columns 1..nu
TruncateOneColumn(U, v) ==
    [num |-> Tuple([i \in 1..NRowsOf(U.num) |-> <<U.num[i][v]>>]), den |-> U.den]

\* U_nu: the first nu columns of U
Truncate(U, v) ==
    [num |-> Tuple([i \in 1..NRowsOf(U.num) |-> Tuple([j \in 1..v |-> U.num[i][j]])]),
     den |-> U.den]

\* encode whose sums start at the second coordinate of x
encodeSkipsFirst(xv, Unu) ==
    [num |-> Tuple([j \in 1..NColsOf(Unu.num) |->
                 Sum([k \in 1..Len(xv.num) |->
                         IF k = 1 THEN 0 ELSE Unu.num[k][j] * xv.num[k]], Len(xv.num))]),
     den |-> Unu.den * xv.den]

\* z = U_nu^T x
encode(xv, Unu) ==
    [num |-> MatVec(Transpose(Unu.num), xv.num), den |-> Unu.den * xv.den]

\* decode whose sums stop one column short
decodeStopsShort(zv, Unu) ==
    [num |-> Tuple([i \in 1..NRowsOf(Unu.num) |->
                 Sum([j \in 1..Len(zv.num) |-> Unu.num[i][j] * zv.num[j]], Len(zv.num) - 1)]),
     den |-> Unu.den * zv.den]

\* xhat = U_nu z
decode(zv, Unu) ==
    [num |-> MatVec(Unu.num, zv.num), den |-> Unu.den * zv.den]

---------------------------------------------------------------------------
(* Inputs *)

\* Observations the data sets are made of.
Palette ==
    << <<0, 0, 0, 0>>, <<1, 1, 1, 1>>, <<2, 2, 0, 0>>, <<2, 0, 2, 0>>,
       <<2, 0, 0, 2>>, <<2, 0, 0, 0>>, <<1, 3, 0, 0>>, <<3, 3, 3, 3>> >>

\* Data sets of NRows observations.  The order of the rows does not enter the
\* covariance, so one order per collection of rows is kept.
RowChoices ==
    {idx \in [1..NRows -> 1..Len(Palette)] :
        \A i \in 1..(NRows - 1) : idx[i] <= idx[i + 1]}

DataSets ==
    {A \in {[num |-> Tuple([i \in 1..NRows |-> Palette[idx[i]]]), den |-> 1] : idx \in RowChoices} :
        fit(Center(A), D) # NotFitted}

\* Centred observations to encode.
XSet == {[num |-> Tuple(v), den |-> 1] : v \in [1..D -> -MaxX..MaxX]}

NoVec == [num |-> <<>>, den |-> 1]

---------------------------------------------------------------------------
(* The notebook *)

\* A fresh kernel; the data set is whatever load_iris() will deliver
Fresh ==
    /\ pc = "start"
    /\ iris_source \in DataSets
    /\ iris_data = NoData
    /\ pcaIris3 = NotFitted
    /\ plot = [y |-> <<>>, xticks |-> <<>>]
    /\ nu = 0
    /\ x = NoVec
    /\ z = NoVec
    /\ xhat = NoVec

Init == Fresh /\ n_components = NComponents

\* Cell e2d861c5: imports only
ImportCell ==
    /\ pc = "start"
    /\ pc' = "imported"
    /\ UNCHANGED <<iris_source, iris_data, n_components, pcaIris3, plot, nu, x, z, xhat>>

\* Cell 165c54db: iris_data = load_iris().data, then centred.  (The labels and
\* `classes` it also sets are read by no later cell.)
LoadCell ==
    /\ pc = "imported"
    /\ iris_data' = Center(iris_source)
    /\ pc' = "loaded"
    /\ UNCHANGED <<iris_source, n_components, pcaIris3, plot, nu, x, z, xhat>>

\* Cell 33bef977: fit, then plot the explained-variance ratios
FitCell ==
    /\ pc = "loaded"
    /\ pcaIris3' = fit(iris_data, n_components)
    /\ plot' = [y |-> pcaIris3'.explained_variance_ratio_, xticks |-> <<0, 1, 2>>]
    /\ pc' = "fitted"
    /\ UNCHANGED <<iris_source, iris_data, n_components, nu, x, z, xhat>>

\* z = U_nu^T x for a centred observation x and a number nu of retained columns
Encode ==
    /\ pc = "fitted"
    /\ \E xv \in XSet, v \in 1..D :
          /\ x' = xv
          /\ nu' = v
          /\ z' = encode(xv, Truncate(pcaIris3.U, v))
    /\ xhat' = NoVec
    /\ pc' = "encoded"
    /\ UNCHANGED <<iris_source, iris_data, n_components, pcaIris3, plot>>

\* xhat = U_nu z
Decode ==
    /\ pc = "encoded"
    /\ xhat' = decode(z, Truncate(pcaIris3.U, nu))
    /\ pc' = "decoded"
    /\ UNCHANGED <<iris_source, iris_data, n_components, pcaIris3, plot, nu, x, z>>

Next == ImportCell \/ LoadCell \/ FitCell \/ Encode \/ Decode

Spec == Init /\ [][Next]_vars

\* fit for every number of components: the code cells alone, with
\* n_components drawn from 1..D
InitFit == Fresh /\ n_components \in 1..D

NextFit == ImportCell \/ LoadCell \/ FitCell

SpecFit == InitFit /\ [][NextFit]_vars

---------------------------------------------------------------------------
(* Notions the properties are stated with *)

Fitted == pc \in {"fitted", "encoded", "decoded"}

Basis == pcaIris3.U

\* Two vectors num/den are the same vector
VecEq(a, b) ==
    /\ Len(a.num) = Len(b.num)
    /\ \A i \in 1..Len(a.num) : a.num[i] * b.den = b.num[i] * a.den

IsZero(v) == \A i \in 1..Len(v) : v[i] = 0

\* M without row 1 and column j
Minor(M, j) ==
    Tuple([r \in 1..(Len(M) - 1) |->
        Tuple([c \in 1..(Len(M) - 1) |-> M[r + 1][IF c < j THEN c ELSE c + 1]])])

\* Determinant of a square matrix, expanded along its first row
RECURSIVE Det(_)
Det(M) ==
    IF Len(M) = 0 THEN 1
    ELSE IF Len(M) = 1 THEN M[1][1]
    ELSE Sum([j \in 1..Len(M) |->
                 (IF j % 2 = 1 THEN 1 ELSE -1) * M[1][j] * Det(Minor(M, j))], Len(M))

\* The elements of a set of integers in increasing order
RECURSIVE Ascending(_)
Ascending(S) ==
    IF S = {} THEN <<>>
    ELSE LET m == CHOOSE a \in S : \A b \in S : a <= b
         IN  <<m>> \o Ascending(S \ {m})

\* The rows R and columns C of M
SubMatrix(M, R, C) ==
    LET rs == Ascending(R)
        cs == Ascending(C)
    IN  Tuple([i \in 1..Len(rs) |-> Tuple([j \in 1..Len(cs) |-> M[rs[i]][cs[j]]])])

\* Rank of a square matrix: the size of its largest square submatrix with a
\* non-zero determinant
Rank(M) ==
    LET n    == Len(M)
        Full == {k \in 0..n :
                    \E R \in SUBSET (1..n), C \in SUBSET (1..n) :
                        /\ Cardinality(R) = k
                        /\ Cardinality(C) = k
                        /\ Det(SubMatrix(M, R, C)) # 0}
    IN  CHOOSE k \in Full : \A l \in Full : l <= k

\* v is a linear combination of the columns of A (which are independent):
\* the Gram determinant of the columns of A together with v vanishes.  The
\* columns of a square matrix of non-zero determinant span every vector.
InSpan(v, A) ==
    IF NColsOf(A) = NRowsOf(A)
    THEN Det(A) # 0
    ELSE LET B == Transpose(A) \o <<v>>
         IN  Det(MatMul(B, Transpose(B))) = 0

\* diag(1, ..., 1, 0, ..., 0) with v ones, of size D
OnesThenZeros(v) ==
    Tuple([i \in 1..D |-> Tuple([j \in 1..D |-> IF i = j /\ i <= v THEN 1 ELSE 0])])

\* U_nu U_nu^T, as num / den
Projector(v) ==
    LET M == Truncate(Basis, v).num
    IN  [num |-> MatMul(M, Transpose(M)), den |-> Basis.den * Basis.den]

\* U_nu^T U_nu, as num / den
GramOf(v) ==
    LET M == Truncate(Basis, v).num
    IN  [num |-> MatMul(Transpose(M), M), den |-> Basis.den * Basis.den]

\* A rational matrix equals an integer matrix
MatIs(A, B) == A.num = Scaled(A.den, B)

\* decode(encode(xv)) with v retained columns
Reconstruct(xv, v) == decode(encode(xv, Truncate(Basis, v)), Truncate(Basis, v))

\* xv - xh, times both denominators
Residual(xv, xh) ==
    Tuple([i \in 1..Len(xv.num) |-> xv.num[i] * xh.den - xh.num[i] * xv.den])

\* The squared reconstruction error |xv - xh|^2, as num / den
Err2(xv, xh) ==
    [num |-> Dot(Residual(xv, xh), Residual(xv, xh)),
     den |-> (xv.den * xh.den) * (xv.den * xh.den)]

Leq(r, s) == r.num * s.den <= s.num * r.den

\* Some principal component is not along a coordinate axis
Oblique == \E i \in 1..D, j \in 1..D : Basis.num[i][j] \notin {0, Basis.den, -Basis.den}

\* The data as loaded is not centred
Uncentred(A) == \E j \in 1..D : ColSum(A.num, j) # 0

Ratios == pcaIris3.explained_variance_ratio_

---------------------------------------------------------------------------
(* Properties of encode and decode *)

\* C1: when all D columns are retained, decode(encode(x)) is x itself.
RoundTripIsExact == (pc = "decoded" /\ nu = D) => VecEq(xhat, x)

RoundTripIsExact_Witness ==
    /\ pc = "decoded"
    /\ nu = D
    /\ Oblique
    /\ ~IsZero(x.num)
    /\ VecEq(xhat, x)

\* C2: decode(encode(x)) is the orthogonal projection of x onto the span of
\* the retained columns (it lies in the span, and x - xhat is orthogonal to
\* every retained column), and it is x exactly when x lies in that span.
ReconstructionIsProjection ==
    pc = "decoded" =>
        LET Unu == Truncate(Basis, nu).num
        IN  /\ InSpan(xhat.num, Unu)
            /\ \A j \in 1..nu : Dot(Column(Unu, j), Residual(x, xhat)) = 0
            /\ VecEq(xhat, x) <=> InSpan(x.num, Unu)

ReconstructionIsProjection_Witness ==
    /\ pc = "decoded"
    /\ nu < D
    /\ Oblique
    /\ ~InSpan(x.num, Truncate(Basis, nu).num)
    /\ ~IsZero(xhat.num)
    /\ ~VecEq(xhat, x)

\* C7: for a fixed basis and a fixed x the reconstruction error does not
\* grow with the number of retained columns, and it is 0 when all D are
\* retained.
ErrorNonIncreasing ==
    pc = "decoded" =>
        /\ \A v \in 1..D :
              /\ v <= nu => Leq(Err2(x, xhat), Err2(x, Reconstruct(x, v)))
              /\ v >= nu => Leq(Err2(x, Reconstruct(x, v)), Err2(x, xhat))
        /\ Err2(x, Reconstruct(x, D)).num = 0
        /\ nu = D => Err2(x, xhat).num = 0

ErrorNonIncreasing_Witness ==
    /\ pc = "decoded"
    /\ nu = 1
    /\ Oblique
    /\ Err2(x, Reconstruct(x, 2)).num > 0
    /\ Err2(x, Reconstruct(x, 2)).num < Err2(x, xhat).num
    /\ Err2(x, Reconstruct(x, 3)).num < Err2(x, Reconstruct(x, 2)).num

---------------------------------------------------------------------------
(* Properties of the fitted basis *)

\* C3: for every number v of retained columns, U_v^T U_v is the identity
\* and U_v U_v^T is a projector (idempotent, symmetric, of rank v); with all
\* D columns both U U^T and U^T U are the identity.
TruncatedBasisIsOrthonormal ==
    pc = "fitted" =>
        /\ \A v \in 1..D :
              LET P == Projector(v)
              IN  /\ MatIs(GramOf(v), Identity(v))
                  /\ MatMul(P.num, P.num) = Scaled(P.den, P.num)
                  /\ P.num = Transpose(P.num)
                  /\ Rank(P.num) = v
        /\ MatIs(Projector(D), Identity(D))
        /\ MatIs(GramOf(D), Identity(D))

TruncatedBasisIsOrthonormal_Witness ==
    /\ pc = "fitted"
    /\ Oblique
    /\ Rank(Projector(2).num) = 2
    /\ ~MatIs(Projector(2), OnesThenZeros(2))

\* U_v is the pseudo-inverse of U_v^T (the four Penrose conditions)
PseudoInverse(v) ==
    LET Aplus == Truncate(Basis, v).num
        A     == Transpose(Aplus)
        dd    == Basis.den * Basis.den
    IN  /\ MatMul(MatMul(A, Aplus), A) = Scaled(dd, A)
        /\ MatMul(MatMul(Aplus, A), Aplus) = Scaled(dd, Aplus)
        /\ MatMul(A, Aplus) = Transpose(MatMul(A, Aplus))
        /\ MatMul(Aplus, A) = Transpose(MatMul(Aplus, A))

\* The first v principal components span the first v coordinate axes
SpansFirstAxes(v) == \A j \in 1..v, i \in (v + 1)..D : Basis.num[i][j] = 0

---------------------------------------------------------------------------
(* Properties of fit *)

Zero == Div(0, 1)
One == Div(1, 1)

RatiosAreFractions ==
    /\ \A j \in 1..n_components : Geq(Ratios[j], Zero)
    /\ \A j \in 1..(n_components - 1) : Geq(Ratios[j], Ratios[j + 1])
    /\ Geq(One, SumRatios(Ratios, n_components))
    /\ n_components = D => Same(SumRatios(Ratios, n_components), One)

=============================================================================
